---- MODULE Spec2Model ----
(***************************************************************************)
(* Model of gvariant-rs (src/gvariant/src/lib.rs): zero-copy typed views   *)
(* over a borrowed byte range.  Byte ranges are sequences of bytes; a      *)
(* position p of the source (0-based) is element p+1 of the sequence.      *)
(* usize values that can leave the 31-bit range are kept as four 16-bit    *)
(* limbs, least significant first, so that 64-bit wrap-around is exact.    *)
(***************************************************************************)
EXTENDS Integers, Sequences, FiniteSets, TLC

VARIABLES data, res, iter, yielded, strs

vars == <<data, res, iter, yielded, strs>>

----------------------------------------------------------------------------
(* Bounds of the explored inputs *)

MaxLen == 3
MaxByte == 4
MaxIdx == 4
MaxLongExtra == 3
MaxLongBack == 5
MaxOther == 3
MaxScalarLen == 9
MaxStrs == 3
MaxStrLen == 2
MaxWidthLen == 2
LongStrLen == 251

----------------------------------------------------------------------------
(* 64-bit usize arithmetic on limbs *)

Limb == 2^16

W(n) == <<n % Limb, (n \div Limb) % Limb, 0, 0>>

WLe(a, b) ==
    \/ a[4] < b[4]
    \/ a[4] = b[4] /\ a[3] < b[3]
    \/ a[4] = b[4] /\ a[3] = b[3] /\ a[2] < b[2]
    \/ a[4] = b[4] /\ a[3] = b[3] /\ a[2] = b[2] /\ a[1] <= b[1]

WIn(x, lo, hi) == WLe(lo, x) /\ WLe(x, hi)

\* a - b modulo 2^64 (usize::wrapping_sub)
WSub(a, b) ==
    LET d1 == a[1] - b[1]
        c1 == IF d1 < 0 THEN 1 ELSE 0
        d2 == a[2] - b[2] - c1
        c2 == IF d2 < 0 THEN 1 ELSE 0
        d3 == a[3] - b[3] - c2
        c3 == IF d3 < 0 THEN 1 ELSE 0
        d4 == a[4] - b[4] - c3
    IN  <<(d1 + Limb) % Limb, (d2 + Limb) % Limb,
          (d3 + Limb) % Limb, (d4 + Limb) % Limb>>

\* a / k for a small divisor k
WDiv(a, k) ==
    LET q4 == a[4] \div k
        r4 == a[4] % k
        n3 == r4 * Limb + a[3]
        q3 == n3 \div k
        r3 == n3 % k
        n2 == r3 * Limb + a[2]
        q2 == n2 \div k
        r2 == n2 % k
        n1 == r2 * Limb + a[1]
        q1 == n1 \div k
    IN  <<q1, q2, q3, q4>>

----------------------------------------------------------------------------
(* Results of a call: a value, or a panic *)

Ok(v) == [ok |-> TRUE, v |-> v]

Panic == [ok |-> FALSE]

None == [some |-> FALSE]

Some(v) == [some |-> TRUE, v |-> v]

\* d[a..b] of the source; callers check a <= b <= len first
Slice(d, a, b) == SubSeq(d, a + 1, b)

----------------------------------------------------------------------------
(* 2.3.6 Framing offsets *)

U0 == 0
U1 == 1
U2 == 2
U4 == 4
U8 == 8

X1 == <<1, 0, 0, 0>>
XFF == <<255, 0, 0, 0>>
X100 == <<256, 0, 0, 0>>
XFFFF == <<65535, 0, 0, 0>>
X10000 == <<0, 1, 0, 0>>
XFFFFFFFF == <<65535, 65535, 0, 0>>
X100000000 == <<0, 0, 1, 0>>
XFFFFFFFFFFFFFFFF == <<65535, 65535, 65535, 65535>>

\* offset_size with the one-byte arm reaching 0x100
offset_size_u1_through_0x100(len) ==
    CASE len = W(0) -> U0
      [] WIn(len, X1, X100) -> U1
      [] WIn(len, <<257, 0, 0, 0>>, XFFFF) -> U2
      [] WIn(len, X10000, XFFFFFFFF) -> U4
      [] WIn(len, X100000000, XFFFFFFFFFFFFFFFF) -> U8

\* len is a usize in limbs; the result is the OffsetSize discriminant
offset_size(len) ==
    CASE len = W(0) -> U0
      [] WIn(len, X1, XFF) -> U1
      [] WIn(len, X100, XFFFF) -> U2
      [] WIn(len, X10000, XFFFFFFFF) -> U4
      [] WIn(len, X100000000, XFFFFFFFFFFFFFFFF) -> U8

RECURSIVE from_le_bytes(_)
from_le_bytes(b) ==
    IF b = <<>> THEN 0 ELSE Head(b) + 256 * from_le_bytes(Tail(b))

RECURSIVE from_be_bytes(_)
from_be_bytes(b) ==
    IF b = <<>> THEN 0 ELSE b[Len(b)] + 256 * from_be_bytes(SubSeq(b, 1, Len(b) - 1))

\* read_uint reading the offsets big-endian
read_uint_be(d, size, n) ==
    LET s == n * size
    IN  IF size = U0 THEN Ok(0)
        ELSE IF s + size > Len(d) THEN Panic
        ELSE Ok(from_be_bytes(SubSeq(d, s + 1, s + size)))

\* read_uint(data, size, n): indexing past the end of data panics
read_uint(d, size, n) ==
    LET s == n * size
    IN  IF size = U0 THEN Ok(0)
        ELSE IF s + size > Len(d) THEN Panic
        ELSE Ok(from_le_bytes(Slice(d, s, s + size)))

read_last_frame_offset(d) ==
    LET osz == offset_size(W(Len(d)))
    IN  [osz |-> osz, lfo |-> read_uint(Slice(d, Len(d) - osz, Len(d)), osz, 0).v]

----------------------------------------------------------------------------
(* Alignment of the element type and rounding of a position *)

\* Str: type AlignOf = aligned_bytes::A1
StrAlign == 1

\* offset::align_offset: the next position that is a multiple of a
align_offset(a, x) == ((x + a - 1) \div a) * a

----------------------------------------------------------------------------
(* Str: a view is the byte range itself *)

Str_default_ref == <<>>

Str_try_from_aligned_slice(slice) == Ok(slice)

Last(d) == d[Len(d)]

\* to_bytes cutting at the first NUL, as to_cstr does
Str_to_bytes_first_nul(d) ==
    IF d # <<>> /\ d[Len(d)] = 0
    THEN SubSeq(d, 1, (CHOOSE i \in 1..Len(d) : d[i] = 0 /\ \A j \in 1..(i - 1) : d[j] # 0) - 1)
    ELSE <<>>

Str_to_bytes(d) ==
    IF d # <<>> /\ Last(d) = 0 THEN Slice(d, 0, Len(d) - 1) ELSE <<>>

\* d.iter().position(|x| *x == 0): the first position holding a NUL
position_nul(d) ==
    IF \E i \in 1..Len(d) : d[i] = 0
    THEN Some((CHOOSE i \in 1..Len(d) : d[i] = 0 /\ \A j \in 1..(i - 1) : d[j] # 0) - 1)
    ELSE None

\* CStr::from_bytes_with_nul: exactly one NUL, and it is the last byte
from_bytes_with_nul(b) ==
    IF b # <<>> /\ Last(b) = 0 /\ \A i \in 1..(Len(b) - 1) : b[i] # 0
    THEN Ok(b) ELSE Panic

\* to_cstr keeping the whole terminated range, interior NULs included
Str_to_cstr_whole(d) ==
    IF d # <<>> /\ Last(d) = 0 THEN Ok(d) ELSE Ok(<<0>>)

\* The CStr is kept with its terminator
Str_to_cstr(d) ==
    LET d2 == IF d # <<>> /\ Last(d) = 0 THEN d ELSE <<0>>
        pos == position_nul(d2)
    IN  IF ~pos.some THEN Panic
        ELSE from_bytes_with_nul(Slice(d2, 0, pos.v + 1))

\* PartialEq for Str: self.to_cstr() == other.to_cstr()
Str_eq(a, b) ==
    LET ca == Str_to_cstr(a)
        cb == Str_to_cstr(b)
    IN  IF ~ca.ok \/ ~cb.ok THEN Panic ELSE Ok(ca.v = cb.v)

\* An element handed out by an array: the Str and the sub-range it views.
\* The default element views the static empty range, not the array.
Elem(d, start, end) ==
    [default |-> FALSE, start |-> start, end |-> end,
     str |-> Str_try_from_aligned_slice(Slice(d, start, end)).v]

DefaultElem ==
    [default |-> TRUE, start |-> 0, end |-> 0,
     str |-> Str_try_from_aligned_slice(<<>>).v]

----------------------------------------------------------------------------
(* NonFixedWidthArray<Str> *)

\* The outcomes of len().  self.data.len() - lfo underflows when lfo is
\* larger than the range: a build with overflow checks panics, a build
\* without them wraps modulo 2^64.
NonFixedWidthArray_len(d) ==
    IF d = <<>> THEN {Ok(W(0))}
    ELSE LET r == read_last_frame_offset(d)
         IN  IF r.osz = U0 THEN {Panic}
             ELSE IF r.lfo > Len(d)
                  THEN {Panic, Ok(WDiv(WSub(W(Len(d)), W(r.lfo)), r.osz))}
                  ELSE {Ok(W((Len(d) - r.lfo) \div r.osz))}

NonFixedWidthArray_into_iter(d) ==
    LET r == read_last_frame_offset(d)
    IN  [status |-> "live", next_start |-> 0,
         offset_idx |-> r.lfo, offset_size |-> r.osz]

\* next() with the end bound taken as end > len
NonFixedWidthArrayIterator_next_end_inclusive(d, it) ==
    IF it.offset_idx = Len(d) THEN [out |-> Ok(None), it |-> it]
    ELSE IF it.offset_idx > Len(d)
         THEN [out |-> Panic, it |-> [it EXCEPT !.status = "panicked"]]
    ELSE LET start == align_offset(StrAlign, it.next_start)
             e == read_uint(Slice(d, it.offset_idx, Len(d)), it.offset_size, 0)
         IN  IF ~e.ok
             THEN [out |-> Panic, it |-> [it EXCEPT !.status = "panicked"]]
             ELSE LET end == e.v
                      it2 == [it EXCEPT !.offset_idx = @ + it.offset_size,
                                        !.next_start = end]
                  IN  IF end < start \/ end > Len(d)
                      THEN [out |-> Ok(Some(DefaultElem)), it |-> it2]
                      ELSE [out |-> Ok(Some(Elem(d, start, end))), it |-> it2]

\* One call of next() on iterator it over d: the returned Option (or a
\* panic) and the iterator afterwards.
NonFixedWidthArrayIterator_next(d, it) ==
    IF it.offset_idx = Len(d) THEN [out |-> Ok(None), it |-> it]
    ELSE IF it.offset_idx > Len(d)
         THEN [out |-> Panic, it |-> [it EXCEPT !.status = "panicked"]]
    ELSE LET start == align_offset(StrAlign, it.next_start)
             e == read_uint(Slice(d, it.offset_idx, Len(d)), it.offset_size, 0)
         IN  IF ~e.ok
             THEN [out |-> Panic, it |-> [it EXCEPT !.status = "panicked"]]
             ELSE LET end == e.v
                      it2 == [it EXCEPT !.offset_idx = @ + it.offset_size,
                                        !.next_start = end]
                  IN  IF end < start \/ end >= Len(d)
                      THEN [out |-> Ok(Some(DefaultElem)), it |-> it2]
                      ELSE [out |-> Ok(Some(Elem(d, start, end))), it |-> it2]

\* index() with the bounds taken as start <= len and end <= len
NonFixedWidthArray_index_inclusive(d, index) ==
    LET r == read_last_frame_offset(d)
    IN  IF r.lfo > Len(d) THEN Panic
        ELSE LET frame_offsets == Slice(d, r.lfo, Len(d))
                 e == read_uint(frame_offsets, r.osz, index)
                 p == IF index = 0 THEN Ok(0)
                      ELSE read_uint(frame_offsets, r.osz, index - 1)
             IN  IF ~e.ok \/ ~p.ok THEN Panic
                 ELSE LET end == e.v
                          start == align_offset(StrAlign, p.v)
                      IN  IF start <= Len(d) /\ end <= Len(d) /\ start <= end
                          THEN Ok(Elem(d, start, end))
                          ELSE Ok(DefaultElem)

NonFixedWidthArray_index(d, index) ==
    LET r == read_last_frame_offset(d)
    IN  IF r.lfo > Len(d) THEN Panic
        ELSE LET frame_offsets == Slice(d, r.lfo, Len(d))
                 e == read_uint(frame_offsets, r.osz, index)
                 p == IF index = 0 THEN Ok(0)
                      ELSE read_uint(frame_offsets, r.osz, index - 1)
             IN  IF ~e.ok \/ ~p.ok THEN Panic
                 ELSE LET end == e.v
                          start == align_offset(StrAlign, p.v)
                      IN  IF start < Len(d) /\ end < Len(d) /\ start <= end
                          THEN Ok(Elem(d, start, end))
                          ELSE Ok(DefaultElem)

----------------------------------------------------------------------------
(* Fixed-size scalars (impl_cast_for!) and the two Maybe encodings *)

ScalarTypes == {"Bool", "u8", "u16", "i16", "u32", "i32", "u64", "i64", "f64"}

\* core::mem::size_of::<T>()
size_of(t) ==
    CASE t \in {"Bool", "u8"} -> 1
      [] t \in {"u16", "i16"} -> 2
      [] t \in {"u32", "i32"} -> 4
      [] t \in {"u64", "i64", "f64"} -> 8

ByteAt(d, i) == IF i <= Len(d) THEN d[i] ELSE 0

\* The value of type t whose representation is the bytes d, as a bit
\* pattern in limbs (signed and floating types keep their bit pattern).
Reinterpret(t, d) ==
    [ty |-> t,
     bits |-> <<ByteAt(d, 1) + 256 * ByteAt(d, 2), ByteAt(d, 3) + 256 * ByteAt(d, 4),
                ByteAt(d, 5) + 256 * ByteAt(d, 6), ByteAt(d, 7) + 256 * ByteAt(d, 8)>>]

\* casting::try_cast_slice_to::<T>: the size must match exactly
try_cast_slice_to(t, slice) ==
    IF Len(slice) = size_of(t) THEN Ok(Reinterpret(t, slice)) ELSE Panic

Scalar_default_ref(t) == [ty |-> t, bits |-> W(0)]

Scalar_try_from_aligned_slice(t, slice) == try_cast_slice_to(t, slice)

\* from_aligned_slice reinterpreting whatever bytes there are on a wrong size
Scalar_from_aligned_slice_unchecked(t, slice) ==
    LET r == Scalar_try_from_aligned_slice(t, slice)
    IN  IF r.ok THEN r.v ELSE Reinterpret(t, SubSeq(slice, 1, IF Len(slice) < size_of(t)
                                                               THEN Len(slice) ELSE size_of(t)))

\* Cast::from_aligned_slice: Err(_) => Self::default_ref()
Scalar_from_aligned_slice(t, slice) ==
    LET r == Scalar_try_from_aligned_slice(t, slice)
    IN  IF r.ok THEN r.v ELSE Scalar_default_ref(t)

Bool_to_bool(b) == b.bits[1] > 0

\* to_option going through from_aligned_slice: a wrong size gives Some(default)
MaybeFixedSize_to_option_defaulting(t, d) ==
    LET r == Scalar_try_from_aligned_slice(t, d)
    IN  IF r.ok THEN Some(r.v)
        ELSE IF d = <<>> THEN None ELSE Some(Scalar_default_ref(t))

\* T::try_from_aligned_slice(&self.data).ok()
MaybeFixedSize_to_option(t, d) ==
    LET r == Scalar_try_from_aligned_slice(t, d)
    IN  IF r.ok THEN Some(r.v) ELSE None

\* to_option that takes a non-zero last byte for Nothing
MaybeNonFixedSize_to_option_checking(d) ==
    IF d = <<>> \/ d[Len(d)] # 0 THEN Ok(None)
    ELSE Ok(Some(SubSeq(d, 1, Len(d) - 1)))

\* MaybeNonFixedSize<Str>::to_option
MaybeNonFixedSize_to_option(d) ==
    IF d = <<>> THEN Ok(None)
    ELSE LET r == Str_try_from_aligned_slice(Slice(d, 0, Len(d) - 1))
         IN  IF r.ok THEN Ok(Some(r.v)) ELSE Panic

----------------------------------------------------------------------------
(* Inputs *)

Byte == 0..MaxByte

RECURSIVE SeqsUpTo(_, _)
SeqsUpTo(S, n) ==
    IF n = 0 THEN {<<>>}
    ELSE LET P == SeqsUpTo(S, n - 1)
         IN  P \cup {Append(p, b) : p \in {q \in P : Len(q) = n - 1}, b \in S}

ShortInputs == SeqsUpTo(Byte, MaxLen)

\* Ranges long enough for two-byte framing offsets: a filler, then offset
\* words, the last of which is the last framing offset.
LE2(n) == <<n % 256, n \div 256>>

LongOfLen(l) ==
    {[i \in 1..(l - 4) |-> f] \o LE2(o) \o LE2(lfo) :
        f \in {0, 1}, o \in {0, 3, 300}, lfo \in (l - MaxLongBack)..(l + 1)}

LongInputs == UNION {LongOfLen(l) : l \in 256..(255 + MaxLongExtra)}

Inputs == ShortInputs \cup LongInputs

\* Ranges for the scalar decoders: prefixes of the bytes of test_numbers,
\* of all-ones bytes and of bytes with the sign bit of each word set.
ScalarPatterns ==
    {[i \in 1..MaxScalarLen |-> i],
     [i \in 1..MaxScalarLen |-> 255],
     [i \in 1..MaxScalarLen |-> IF i % 2 = 0 THEN 128 ELSE 0]}

ScalarInputs == {SubSeq(p, 1, n) : p \in ScalarPatterns, n \in 0..MaxScalarLen}

\* The second operand of a Str comparison
Others == SeqsUpTo(0..1, MaxOther)

\* Lengths at and around every arm of offset_size
SampleLens ==
    {W(0), X1, <<2, 0, 0, 0>>, <<254, 0, 0, 0>>, XFF, X100, <<257, 0, 0, 0>>,
     <<65534, 0, 0, 0>>, XFFFF, X10000, <<1, 1, 0, 0>>, <<65534, 65535, 0, 0>>,
     XFFFFFFFF, X100000000, <<1, 0, 1, 0>>, <<0, 0, 0, 1>>,
     <<65534, 65535, 65535, 65535>>, XFFFFFFFFFFFFFFFF}

NoIter == [status |-> "none", next_start |-> 0, offset_idx |-> 0, offset_size |-> 0]

NoRes == [op |-> "none"]

----------------------------------------------------------------------------
(* Operations on the array view *)

Init ==
    /\ data \in Inputs
    /\ res = NoRes
    /\ iter = NoIter
    /\ yielded = <<>>
    /\ strs = <<>>

Len_ ==
    /\ \E r \in NonFixedWidthArray_len(data) :
          res' = [op |-> "len", out |-> r]
    /\ UNCHANGED <<data, iter, yielded, strs>>

Index ==
    /\ \E i \in 0..MaxIdx :
          res' = [op |-> "index", arg |-> i, out |-> NonFixedWidthArray_index(data, i)]
    /\ UNCHANGED <<data, iter, yielded, strs>>

IntoIter ==
    /\ iter' = NonFixedWidthArray_into_iter(data)
    /\ yielded' = <<>>
    /\ res' = [op |-> "into_iter"]
    /\ UNCHANGED <<data, strs>>

IterNext ==
    /\ iter.status = "live"
    /\ LET n == NonFixedWidthArrayIterator_next(data, iter)
       IN  /\ iter' = n.it
           /\ res' = [op |-> "next", out |-> n.out]
           /\ yielded' = IF n.out.ok /\ n.out.v.some
                         THEN Append(yielded, n.out.v.v) ELSE yielded
    /\ UNCHANGED <<data, strs>>

OffsetSizeOf ==
    /\ \E l \in SampleLens :
          res' = [op |-> "offset_size", arg |-> l, out |-> offset_size(l)]
    /\ UNCHANGED <<data, iter, yielded, strs>>

Next == Len_ \/ Index \/ IntoIter \/ IterNext

Spec == Init /\ [][Next]_vars

\* The width of the framing offsets, on ranges of every width class
InitWidth ==
    /\ data \in SeqsUpTo(Byte, MaxWidthLen) \cup LongInputs
    /\ res = NoRes
    /\ iter = NoIter
    /\ yielded = <<>>
    /\ strs = <<>>

NextWidth == OffsetSizeOf \/ Len_ \/ Index \/ IntoIter \/ IterNext

SpecWidth == InitWidth /\ [][NextWidth]_vars

----------------------------------------------------------------------------
(* Operations on a Str view *)

ToBytes ==
    /\ res' = [op |-> "to_bytes", out |-> Ok(Str_to_bytes(data))]
    /\ UNCHANGED <<data, iter, yielded, strs>>

ToCstr ==
    /\ res' = [op |-> "to_cstr", out |-> Str_to_cstr(data)]
    /\ UNCHANGED <<data, iter, yielded, strs>>

StrEq ==
    /\ \E o \in Others :
          res' = [op |-> "eq", other |-> o, out |-> Str_eq(data, o)]
    /\ UNCHANGED <<data, iter, yielded, strs>>

NextStr == ToBytes \/ ToCstr \/ StrEq

SpecStr == Init /\ [][NextStr]_vars

----------------------------------------------------------------------------
(* Operations on a Maybe view and on a scalar *)

InitMaybe ==
    /\ data \in ShortInputs \cup ScalarInputs
    /\ res = NoRes
    /\ iter = NoIter
    /\ yielded = <<>>
    /\ strs = <<>>

MaybeNonFixedToOption ==
    /\ res' = [op |-> "maybe_non_fixed", out |-> MaybeNonFixedSize_to_option(data)]
    /\ UNCHANGED <<data, iter, yielded, strs>>

MaybeFixedToOption ==
    /\ \E t \in ScalarTypes :
          res' = [op |-> "maybe_fixed", ty |-> t,
                  out |-> Ok(MaybeFixedSize_to_option(t, data))]
    /\ UNCHANGED <<data, iter, yielded, strs>>

ScalarFromAlignedSlice ==
    /\ \E t \in ScalarTypes :
          res' = [op |-> "scalar", ty |-> t,
                  out |-> Ok(Scalar_from_aligned_slice(t, data))]
    /\ UNCHANGED <<data, iter, yielded, strs>>

NextMaybe == MaybeNonFixedToOption \/ MaybeFixedToOption \/ ScalarFromAlignedSlice

SpecMaybe == InitMaybe /\ [][NextMaybe]_vars

----------------------------------------------------------------------------
(* Arrays of strings in normal form *)

NulFree ==
    {[i \in 1..k |-> 1 + (i % 2)] : k \in 0..MaxStrLen} \cup {[i \in 1..LongStrLen |-> 1]}

RECURSIVE Body(_)
Body(ss) == IF ss = <<>> THEN <<>> ELSE Head(ss) \o <<0>> \o Body(Tail(ss))

RECURSIVE to_le_bytes(_, _)
to_le_bytes(n, w) ==
    IF w = 0 THEN <<>> ELSE <<n % 256>> \o to_le_bytes(n \div 256, w - 1)

RECURSIVE Offsets(_, _, _)
Offsets(ss, at, w) ==
    IF ss = <<>> THEN <<>>
    ELSE to_le_bytes(at + Len(Head(ss)) + 1, w)
         \o Offsets(Tail(ss), at + Len(Head(ss)) + 1, w)

\* The smallest width that can address the whole container
EncWidth(ss) ==
    LET fits(w) == Len(Body(ss)) + Len(ss) * w < 256 ^ w
    IN  IF fits(1) THEN 1 ELSE 2

Encode(ss) == IF ss = <<>> THEN <<>> ELSE Body(ss) \o Offsets(ss, 0, EncWidth(ss))

InitRoundTrip ==
    /\ strs \in SeqsUpTo(NulFree, MaxStrs)
    /\ data = Encode(strs)
    /\ res = NoRes
    /\ iter = NoIter
    /\ yielded = <<>>

SpecRoundTrip == InitRoundTrip /\ [][Next]_vars

----------------------------------------------------------------------------
(* Properties *)

\* The offset table of a range, as the properties below use it: its width, its
\* position and the number of whole offsets it holds.
TableWidth(d) == offset_size(W(Len(d)))

TableStart(d) == read_last_frame_offset(d).lfo

TableInRange(d) == d # <<>> /\ TableStart(d) <= Len(d)

TableCount(d) == (Len(d) - TableStart(d)) \div TableWidth(d)

StoredOffset(d, i) ==
    from_le_bytes(Slice(d, TableStart(d) + i * TableWidth(d),
                        TableStart(d) + (i + 1) * TableWidth(d)))

ElemStart(d, i) == align_offset(StrAlign, IF i = 0 THEN 0 ELSE StoredOffset(d, i - 1))

Returned == res.op \in {"len", "index", "next", "to_bytes", "to_cstr", "eq",
                        "maybe_non_fixed", "maybe_fixed", "scalar"}

\* C1: decoding any byte range and calling an accessor on the view (len(),
\* indexing with i < len(), next(), to_option(), to_bytes(), to_cstr())
\* never panics: every call returns a value and no iterator is left behind
\* by a panic.
C1_NeverPanic ==
    /\ iter.status # "panicked"
    /\ (Returned /\ res.op # "index") => res.out.ok
    /\ (res.op = "index" /\ \E r \in NonFixedWidthArray_len(data) :
                                r.ok /\ WLe(W(res.arg + 1), r.v)) => res.out.ok

\* C2: a fresh iterator returns Some exactly len() times and then None,
\* its offset-table cursor moving by the offset width on every step.
C2_IterationYieldsLen ==
    /\ iter.status # "panicked"
    /\ iter.status = "live" =>
          iter.offset_idx = TableStart(data) + Len(yielded) * TableWidth(data)
    /\ res.op = "next" =>
          /\ res.out.ok
          /\ \A r \in NonFixedWidthArray_len(data) :
                /\ r.ok
                /\ WLe(W(Len(yielded)), r.v)
                /\ ~res.out.v.some => r.v = W(Len(yielded))

\* C3 as stated: the element at index i is the default when start > len
\* or end > len or start > end, and otherwise the bytes view[start..end],
\* also when end equals len.
C3_IndexBoundsInclusive ==
    (res.op = "index" /\ TableInRange(data) /\ res.arg < TableCount(data)) =>
        LET start == ElemStart(data, res.arg)
            end == StoredOffset(data, res.arg)
        IN  /\ res.out.ok
            /\ res.out.v.str =
                  IF start > Len(data) \/ end > Len(data) \/ start > end
                  THEN <<>> ELSE Slice(data, start, end)

\* C3 amended: for i < len() on a range whose offset table lies inside it,
\* the element at index i is the default when start >= len or end >= len
\* or start > end, and otherwise it views exactly view[start..end].
C3_IndexBoundsStrict ==
    (res.op = "index" /\ TableInRange(data) /\ res.arg < TableCount(data)) =>
        LET start == ElemStart(data, res.arg)
            end == StoredOffset(data, res.arg)
        IN  /\ res.out.ok
            /\ res.out.v =
                  IF start >= Len(data) \/ end >= Len(data) \/ start > end
                  THEN DefaultElem ELSE Elem(data, start, end)

\* Index i whose end offset equals the length of the range, reached by
\* index(): the boundary on which the two readings of C3 differ.
C3_Witness ==
    /\ res.op = "index" /\ TableInRange(data) /\ res.arg < TableCount(data)
    /\ StoredOffset(data, res.arg) = Len(data)
    /\ ElemStart(data, res.arg) < Len(data)
    /\ res.out.ok /\ res.out.v.default

\* C4: when the last framing offset is inside the range and the offset
\* table is a whole number of offsets, the i-th element a fresh iterator
\* yields is the element index(i) returns: the same sub-range, or both the
\* default.
C4_IterationAgreesWithIndex ==
    (iter.status = "live" /\ TableInRange(data)
        /\ (Len(data) - TableStart(data)) % TableWidth(data) = 0) =>
        \A k \in 1..Len(yielded) :
            /\ k <= TableCount(data)
            /\ NonFixedWidthArray_index(data, k - 1) = Ok(yielded[k])

\* An iteration over malformed offsets that has yielded a sub-range and
\* then a default.
C4_Witness ==
    /\ iter.status = "live" /\ TableInRange(data)
    /\ (Len(data) - TableStart(data)) % TableWidth(data) = 0
    /\ res.op = "next"
    /\ Len(yielded) >= 2
    /\ ~yielded[1].default /\ yielded[1].end > yielded[1].start
    /\ yielded[2].default

\* C5: the normal-form encoding of n NUL-free strings decodes to len() = n,
\* and index i and the i-th iterated element both have to_bytes() equal to
\* the i-th string.
C5_RoundTrip ==
    /\ iter.status # "panicked"
    /\ res.op = "len" => res.out = Ok(W(Len(strs)))
    /\ (res.op = "index" /\ res.arg < Len(strs)) =>
          /\ res.out.ok
          /\ Str_to_bytes(res.out.v.str) = strs[res.arg + 1]
    /\ \A k \in 1..Len(yielded) :
          /\ k <= Len(strs)
          /\ Str_to_bytes(yielded[k].str) = strs[k]
    /\ (res.op = "next" /\ res.out.ok /\ ~res.out.v.some) => Len(yielded) = Len(strs)

\* A finished iteration over an encoding with two-byte offsets of at least
\* two strings.
C5_Witness ==
    /\ strs # <<>> /\ data = Encode(strs)
    /\ Len(strs) >= 2 /\ Len(data) >= 256
    /\ res.op = "next" /\ res.out.ok /\ ~res.out.v.some
    /\ Len(yielded) = Len(strs)

\* The width table as the claim gives it, on the limbs of len
WidthTable(l) ==
    IF l[1] = 0 /\ l[2] = 0 /\ l[3] = 0 /\ l[4] = 0 THEN 0
    ELSE IF l[1] < 256 /\ l[2] = 0 /\ l[3] = 0 /\ l[4] = 0 THEN 1
    ELSE IF l[2] = 0 /\ l[3] = 0 /\ l[4] = 0 THEN 2
    ELSE IF l[3] = 0 /\ l[4] = 0 THEN 4
    ELSE 8

\* The little-endian number in the w bytes of d at position p
WordAt(d, p, w) == from_le_bytes(SubSeq(d, p + 1, p + w))

\* C6: offset_size(len) is 0, 1, 2, 4, 8 for len = 0, <= 255, <= 65535,
\* <= 2^32 - 1 and larger, and len(), indexing and iteration read every
\* framing offset with the width offset_size(length of the range).
C6_OffsetWidth ==
    LET w == WidthTable(W(Len(data)))
        lfo == WordAt(data, Len(data) - w, w)
    IN  /\ res.op = "offset_size" => res.out = WidthTable(res.arg)
        /\ iter.status = "live" =>
              /\ iter.offset_size = w
              /\ iter.offset_idx = lfo + Len(yielded) * w
        /\ (res.op = "next" /\ res.out.ok /\ res.out.v.some /\ ~res.out.v.v.default) =>
              res.out.v.v.end = WordAt(data, lfo + (Len(yielded) - 1) * w, w)
        /\ (res.op = "len" /\ data # <<>> /\ lfo <= Len(data)) =>
              res.out = Ok(W((Len(data) - lfo) \div w))
        /\ (res.op = "index" /\ res.out.ok /\ ~res.out.v.default) =>
              /\ res.out.v.end = WordAt(data, lfo + res.arg * w, w)
              /\ res.out.v.start =
                    IF res.arg = 0 THEN 0 ELSE WordAt(data, lfo + (res.arg - 1) * w, w)

\* offset_size applied to 0x10000 while an iterator over a range with
\* two-byte offsets has yielded an element.
C6_Witness ==
    /\ res.op = "offset_size" /\ res.arg = X10000 /\ res.out = 4
    /\ iter.status = "live" /\ iter.offset_size = 2
    /\ Len(data) >= 256 /\ Len(yielded) >= 1

\* C7: to_bytes() of a non-empty range ending in NUL is the range without
\* that one last byte; of any other range it is empty.
C7_ToBytes ==
    res.op = "to_bytes" =>
        LET out == res.out.v
        IN  IF Len(data) > 0 /\ data[Len(data)] = 0
            THEN /\ Len(out) = Len(data) - 1
                 /\ \A i \in 1..Len(out) : out[i] = data[i]
            ELSE out = <<>>

\* to_bytes() of a range with a NUL before its terminating NUL
C7_Witness ==
    /\ res.op = "to_bytes"
    /\ Len(data) >= 3 /\ data[Len(data)] = 0 /\ data[Len(data) - 1] = 0 /\ data[1] # 0
    /\ Len(res.out.v) = Len(data) - 1

\* The NUL-terminated form of the claim, without its terminator
CForm(x) ==
    IF Len(x) > 0 /\ x[Len(x)] = 0
    THEN LET first == CHOOSE i \in 1..Len(x) : x[i] = 0 /\ \A j \in 1..(i - 1) : x[j] # 0
         IN  [i \in 1..(first - 1) |-> x[i]]
    ELSE <<>>

Thirds == {<<>>, <<0>>, <<1>>, <<1, 0>>, <<1, 0, 0>>, <<0, 1, 0>>, <<1, 1, 0>>}

\* C8: Str(a) == Str(b) exactly when their first-NUL-truncated forms are
\* equal (the empty string for a range that does not end in NUL); the
\* relation is reflexive, symmetric and transitive.
C8_EqIsCStrEq ==
    res.op = "eq" =>
        /\ res.out.ok
        /\ res.out.v <=> (CForm(data) = CForm(res.other))
        /\ Str_eq(data, data) = Ok(TRUE)
        /\ Str_eq(res.other, data) = res.out
        /\ \A c \in Thirds :
              (res.out.v /\ Str_eq(res.other, c) = Ok(TRUE)) => Str_eq(data, c) = Ok(TRUE)

\* Two ranges of different bytes, one with bytes after its first NUL, that
\* compare equal.
C8_Witness ==
    /\ res.op = "eq" /\ res.out = Ok(TRUE)
    /\ data # res.other
    /\ Len(data) >= 3 /\ data[1] # 0 /\ data[2] = 0 /\ data[Len(data)] = 0

\* Byte k (from 1, least significant first) of a bit pattern in limbs
ByteOfBits(bits, k) ==
    LET limb == bits[(k + 1) \div 2]
    IN  IF k % 2 = 1 THEN limb % 256 ELSE limb \div 256

\* C9: MaybeFixedSize<T>.to_option() is 'just' the little-endian decoding
\* of the range when its length is sizeof(T), and 'nothing' for every
\* other length.
C9_MaybeFixed ==
    res.op = "maybe_fixed" =>
        LET o == res.out.v
        IN  IF Len(data) = size_of(res.ty)
            THEN /\ o.some
                 /\ o.v.ty = res.ty
                 /\ \A k \in 1..8 : ByteOfBits(o.v.bits, k) = ByteAt(data, k)
            ELSE ~o.some

\* to_option() of an eight-byte range as i64 with the sign bit set
C9_Witness ==
    /\ res.op = "maybe_fixed" /\ res.ty = "i64"
    /\ Len(data) = 8 /\ data[8] >= 128
    /\ res.out.v.some

\* C10: MaybeNonFixedSize<Str>.to_option() is 'nothing' exactly for the
\* empty range, and otherwise 'just' the child over the range without its
\* last byte, whatever that byte is.
C10_MaybeNonFixed ==
    res.op = "maybe_non_fixed" =>
        /\ res.out.ok
        /\ res.out.v.some <=> (Len(data) > 0)
        /\ Len(data) > 0 =>
              /\ Len(res.out.v.v) = Len(data) - 1
              /\ \A i \in 1..(Len(data) - 1) : res.out.v.v[i] = data[i]

\* to_option() of a range of two or more bytes whose last byte is not zero
C10_Witness ==
    /\ res.op = "maybe_non_fixed"
    /\ Len(data) >= 2 /\ data[Len(data)] # 0
    /\ res.out.ok /\ res.out.v.some /\ res.out.v.v # <<>>

\* C11: from_aligned_slice of a scalar type T is the little-endian value of
\* the range when its length is sizeof(T), and the zero default (false for
\* Bool) for every other length; the caller always gets a value of T.
C11_ScalarDecodeOrDefault ==
    res.op = "scalar" =>
        /\ res.out.ok
        /\ res.out.v.ty = res.ty
        /\ IF Len(data) = size_of(res.ty)
           THEN \A k \in 1..8 : ByteOfBits(res.out.v.bits, k) = ByteAt(data, k)
           ELSE /\ \A k \in 1..8 : ByteOfBits(res.out.v.bits, k) = 0
                /\ res.ty = "Bool" => ~Bool_to_bool(res.out.v)

\* from_aligned_slice as i32 of a five-byte range of non-zero bytes
C11_Witness ==
    /\ res.op = "scalar" /\ res.ty = "i32"
    /\ Len(data) = 5 /\ \A i \in 1..5 : data[i] # 0
    /\ res.out.v.bits = <<0, 0, 0, 0>>

\* What C12 says of one step: into_iter() gives next_start = 0 and the cursor
\* at the last framing offset; next() at the end (cursor = len) returns None
\* and leaves the iterator as it was; any other next() reads end at the
\* cursor, moves the cursor by the offset width, sets next_start = end and
\* yields the default when end < start or end >= len, else view[start..end].
C12_Step ==
    LET w == WidthTable(W(Len(data)))
    IN  /\ res'.op = "into_iter" =>
              /\ iter'.next_start = 0
              /\ iter'.offset_idx = WordAt(data, Len(data) - w, w)
        /\ (res'.op = "next" /\ iter.offset_idx = Len(data)) =>
              /\ res'.out.ok /\ ~res'.out.v.some
              /\ iter' = iter /\ yielded' = yielded
        /\ (res'.op = "next" /\ iter.offset_idx # Len(data)) =>
              /\ res'.out.ok /\ res'.out.v.some
              /\ LET start == align_offset(StrAlign, iter.next_start)
                     end == WordAt(data, iter.offset_idx, w)
                 IN  /\ iter'.offset_idx = iter.offset_idx + w
                     /\ iter'.next_start = end
                     /\ res'.out.v.v =
                           IF end < start \/ end >= Len(data)
                           THEN DefaultElem ELSE Elem(data, start, end)

\* C12: every step of a NonFixedWidthArrayIterator, from into_iter() to the
\* None at the end, is the step described above.
C12_IterationStep == [][C12_Step]_vars

====
